---------------------------- MODULE Spec2Model ----------------------------
(* Model of the input action binding and dispatch engine                   *)
(* (core/services/InputService.ts): the binding table, the context gate,   *)
(* the raw input tracker, action states, axis values, handler fan-out and  *)
(* the persistence of bindings in localStorage.                            *)
EXTENDS Integers, Sequences, FiniteSets, TLC

-----------------------------------------------------------------------------
(* JavaScript values                                                        *)

\* The value read from a missing property, a missing Map key or an omitted
\* argument.
Undefined == "<undefined>"

\* localStorage.getItem of a key that is not stored.
Null == [t |-> "null"]

\* String.prototype.toLowerCase on the control tokens the model uses.
ToLowerCase(s) ==
  CASE s = "W" -> "w"
    [] s = "K" -> "k"
    [] s = "S" -> "s"
    [] OTHER -> s

\* JavaScript truthiness of a string-or-undefined value: if (secondary),
\* if (bindingsJson), binding.secondary && ...
Truthy(s) == s # Undefined /\ s # ""

-----------------------------------------------------------------------------
(* Map and Set: insertion-ordered, as in ECMAScript.  A Map is a sequence   *)
(* of entries [k, v] with distinct keys, a Set a sequence without           *)
(* duplicates.                                                              *)

MapHas(m, k) == \E i \in 1..Len(m) : m[i].k = k

MapIndex(m, k) == CHOOSE i \in 1..Len(m) : m[i].k = k

MapGet(m, k) == m[MapIndex(m, k)].v

\* Map.prototype.set: an existing key keeps its position.
MapSet(m, k, v) ==
  IF MapHas(m, k)
    THEN [m EXCEPT ![MapIndex(m, k)] = [k |-> k, v |-> v]]
    ELSE Append(m, [k |-> k, v |-> v])

MapKeys(m) == {m[i].k : i \in 1..Len(m)}

\* A Map whose order is never observed (no iteration in the code): a
\* function on the set of its keys.
UHas(f, k) == k \in DOMAIN f

UGet(f, k) == f[k]

USet(f, k, v) == [x \in (DOMAIN f) \cup {k} |-> IF x = k THEN v ELSE f[x]]

UEmpty == [x \in {} |-> x]

SetHas(s, x) == \E i \in 1..Len(s) : s[i] = x

SetAdd(s, x) == IF SetHas(s, x) THEN s ELSE Append(s, x)

SetDelete(s, x) == SelectSeq(s, LAMBDA y : y # x)

-----------------------------------------------------------------------------
(* Enumerations                                                             *)

InputActionType ==
  { "move-forward", "move-backward", "move-left", "move-right", "jump",
    "sprint", "crouch",
    "attack-primary", "attack-secondary", "reload", "aim",
    "use-ability-1", "use-ability-2", "use-ability-3",
    "interact", "use-item", "pick-up", "drop",
    "menu-toggle", "inventory-toggle", "map-toggle", "quest-log-toggle",
    "pause",
    "enter-exit-vehicle", "vehicle-accelerate", "vehicle-brake",
    "vehicle-turn-left", "vehicle-turn-right",
    "camera-look", "camera-zoom",
    "grapple", "release-grapple" }

InputContext == {"player", "vehicle", "ui", "menu", "dialog", "cutscene"}

PRESSED == "pressed"
RELEASED == "released"
HELD == "held"

InputState == {PRESSED, RELEASED, HELD}

\* An IInputBinding object.  A binding without a secondary control reads
\* secondary as undefined.
Binding(a, p, s, c, d, r) ==
  [action |-> a, primary |-> p, secondary |-> s, context |-> c,
   description |-> d, rebindable |-> r]

\* The defaultBindings array as written in the class body.
DefaultBindingsTable ==
  << Binding("move-forward", "w", "arrowup", "player", "Move Forward", TRUE),
     Binding("move-backward", "s", "arrowdown", "player", "Move Backward", TRUE),
     Binding("move-left", "a", "arrowleft", "player", "Move Left", TRUE),
     Binding("move-right", "d", "arrowright", "player", "Move Right", TRUE),
     Binding("jump", " ", Undefined, "player", "Jump", TRUE),
     Binding("sprint", "shift", Undefined, "player", "Sprint", TRUE),
     Binding("crouch", "control", Undefined, "player", "Crouch", TRUE),
     Binding("attack-primary", "mouse0", Undefined, "player", "Attack (Primary)", TRUE),
     Binding("attack-secondary", "mouse1", Undefined, "player", "Attack (Secondary)", TRUE),
     Binding("reload", "r", Undefined, "player", "Reload", TRUE),
     Binding("aim", "mouse1", Undefined, "player", "Aim", TRUE),
     Binding("use-ability-1", "q", Undefined, "player", "Use Ability 1", TRUE),
     Binding("use-ability-2", "e", Undefined, "player", "Use Ability 2", TRUE),
     Binding("use-ability-3", "f", Undefined, "player", "Use Ability 3", TRUE),
     Binding("interact", "e", Undefined, "player", "Interact", TRUE),
     Binding("use-item", "f", Undefined, "player", "Use Item", TRUE),
     Binding("menu-toggle", "escape", Undefined, "player", "Toggle Menu", FALSE),
     Binding("inventory-toggle", "i", Undefined, "player", "Toggle Inventory", TRUE),
     Binding("map-toggle", "m", Undefined, "player", "Toggle Map", TRUE),
     Binding("grapple", "mouse1", Undefined, "player", "Grapple", TRUE),
     Binding("release-grapple", " ", Undefined, "player", "Release Grapple", TRUE) >>

-----------------------------------------------------------------------------
(* JSON text of the 'input_bindings' key, by its content: unparseable text, *)
(* the empty string, a value that is not iterable, or an array whose items  *)
(* are objects or null.                                                     *)

JObject(o) == [t |-> "object", o |-> o]

JArray(items) == [t |-> "array", items |-> items]

\* A serializer that writes only the required properties.
StringifyBindingRequired(b) ==
  JObject([f \in (DOMAIN b) \ {"secondary"} |-> b[f]])

\* JSON.stringify of one binding: a property whose value is undefined is
\* left out of the text.
StringifyBinding(b) ==
  IF b.secondary = Undefined
    THEN JObject([f \in (DOMAIN b) \ {"secondary"} |-> b[f]])
    ELSE JObject(b)

\* JSON.stringify(Array.from(this.bindings.values()))
JSONStringify(m) == JArray([i \in 1..Len(m) |-> StringifyBinding(m[i].v)])

\* Reading property f of a parsed object.
Prop(o, f) == IF f \in DOMAIN o THEN o[f] ELSE Undefined

\* The parsed object seen through the IInputBinding properties.
ParsedBinding(o) ==
  Binding(Prop(o, "action"), Prop(o, "primary"), Prop(o, "secondary"),
          Prop(o, "context"), Prop(o, "description"), Prop(o, "rebindable"))

-----------------------------------------------------------------------------
(* State of one InputService instance and of its environment                *)

VARIABLES
  defaultBindings,  \* the defaultBindings array (sequence of bindings)
  aliased,          \* actions whose table entry is the very object of the
                    \* defaultBindings array (object identity)
  bindings,         \* Map action -> binding
  activeContexts,   \* Set of contexts (order is never observed)
  keyStates,        \* Map control token -> BOOLEAN
  actionStates,     \* Map action -> InputState (never iterated)
  axisValues,       \* Map action -> number (iterated only to zero it)
  actionHandlers,   \* Map action -> Set of handlers (never iterated)
  storage,          \* localStorage 'input_bindings': Null or a JSON text
  last,             \* the call that was made last, and how it ended
  notified,         \* the handler invocations made during that call
  roundTrip,        \* progress of a save / reset / load sequence
  regate,           \* progress of: press move-forward's control while its
                    \* context is disabled, enable the context, press again
  cancel,           \* progress of: both directions of a movement pair held,
                    \* release one, release the other
  gate,             \* the enableContext / disableContext calls made so far:
                    \* contexts ever enabled, and contexts by their latest call
  objectPool,       \* an ObjectPool: its fields pool and active, and the
                    \* number of objects its createFn has made
  poolLast,         \* the ObjectPool call that was made last
  inventory,        \* an InventoryService: its fields items and maxSize
  inventoryLast     \* the InventoryService call that was made last

vars == << defaultBindings, aliased, bindings, activeContexts, keyStates,
           actionStates, axisValues, actionHandlers, storage, last, notified,
           roundTrip, regate, cancel, gate,
           objectPool, poolLast, inventory, inventoryLast >>

\* The variables of the InputService.
inputVars == << defaultBindings, aliased, bindings, activeContexts, keyStates,
                actionStates, axisValues, actionHandlers, storage, last,
                notified, roundTrip, regate, cancel, gate >>

\* The variables of the two other objects.
poolVars == << objectPool, poolLast >>
inventoryVars == << inventory, inventoryLast >>

\* The engine as one value, on which the methods below are functions.
\* raised: an exception is propagating out of the running method.
Engine ==
  [defaultBindings |-> defaultBindings, aliased |-> aliased,
   bindings |-> bindings, activeContexts |-> activeContexts,
   keyStates |-> keyStates, actionStates |-> actionStates,
   axisValues |-> axisValues, actionHandlers |-> actionHandlers,
   storage |-> storage, notified |-> << >>, raised |-> FALSE,
   caught |-> FALSE, removed |-> << >>, gated |-> << >>]

-----------------------------------------------------------------------------
(* Handlers.  A handler is a callback of the consumer; the model knows a    *)
(* handler by what its body does.                                           *)

Handlers == {"hOk", "hThrow"}

HandlerThrows(h) == h = "hThrow"

\* The context the handler hDisable disables: its body calls
\* disableContext(PLAYER).
GatedContext == "player"

\* The registration the handler hRegister makes: its body calls
\* registerActionHandler(JUMP, hOk2).
LateAction == "jump"
LateHandler == "hOk2"

\* The registration whose unsubscribe function the handler hUnsub calls.
UnsubAction == "jump"
UnsubTarget == "hOk"

\* The value argument of a handler call.
NoValue == [kind |-> "absent"]
NumberValue(n) == [kind |-> "number", n |-> n]
VectorValue(x, y) == [kind |-> "vector", x |-> x, y |-> y]

Notification(a, h, st, val) == [action |-> a, handler |-> h, state |-> st, value |-> val]

-----------------------------------------------------------------------------
(* Binding table                                                            *)

\* getBinding(action): the binding, or Null.
GetBinding(e, action) ==
  IF MapHas(e.bindings, action) THEN MapGet(e.bindings, action) ELSE Null

\* resetBindings(): clear, then set a spread copy of every default.
RECURSIVE SetDefaultsFrom(_, _, _)
SetDefaultsFrom(m, defs, i) ==
  IF i > Len(defs) THEN m
  ELSE SetDefaultsFrom(MapSet(m, defs[i].action, defs[i]), defs, i + 1)

\* resetBindings without the spread copy: the table holds the objects of
\* the defaultBindings array themselves.
ResetBindingsShared(e) ==
  [e EXCEPT !.bindings = SetDefaultsFrom(<< >>, e.defaultBindings, 1),
            !.aliased = {e.defaultBindings[i].action : i \in 1..Len(e.defaultBindings)}]

ResetBindings(e) ==
  [e EXCEPT !.bindings = SetDefaultsFrom(<< >>, e.defaultBindings, 1),
            !.aliased = {}]

\* The defaultBindings array after the object it shares with the table (if
\* it shares one) was mutated to b.
WriteThrough(e, action, b) ==
  IF action \in e.aliased
    THEN [i \in 1..Len(e.defaultBindings) |->
            IF e.defaultBindings[i].action = action THEN b ELSE e.defaultBindings[i]]
    ELSE e.defaultBindings

\* rebindAction without the else branch that clears the secondary control.
ReboundKeepSecondary(b, primary, secondary) ==
  [b EXCEPT !.primary = ToLowerCase(primary),
            !.secondary = IF Truthy(secondary) THEN ToLowerCase(secondary) ELSE @]

\* The binding object after rebindAction's assignments.
Rebound(b, primary, secondary) ==
  [b EXCEPT !.primary = ToLowerCase(primary),
            !.secondary = IF Truthy(secondary) THEN ToLowerCase(secondary) ELSE Undefined]

\* rebindAction without the test of binding.rebindable.
RebindActionUnchecked(e, action, primary, secondary) ==
  IF ~MapHas(e.bindings, action)
    THEN [e |-> e, ret |-> "false"]
    ELSE LET b == Rebound(MapGet(e.bindings, action), primary, secondary)
         IN [e |-> [e EXCEPT !.bindings = MapSet(@, action, b),
                             !.defaultBindings = WriteThrough(e, action, b)],
             ret |-> "true"]

\* rebindAction(action, primary, secondary?): the engine afterwards and the
\* value returned.
RebindAction(e, action, primary, secondary) ==
  IF ~MapHas(e.bindings, action) \/ ~MapGet(e.bindings, action).rebindable
    THEN [e |-> e, ret |-> "false"]
    ELSE LET b == Rebound(MapGet(e.bindings, action), primary, secondary)
         IN [e |-> [e EXCEPT !.bindings = MapSet(@, action, b),
                             !.defaultBindings = WriteThrough(e, action, b)],
             ret |-> "true"]

\* saveBindings(): setItem may throw (quota, storage disabled); the error
\* is caught and logged.
SaveBindings(e, writeOk) ==
  IF writeOk
    THEN [e EXCEPT !.storage = JSONStringify(e.bindings)]
    ELSE [e EXCEPT !.caught = TRUE]

\* The loop without the this.bindings.has(binding.action) test.
RECURSIVE LoadItemsUnfiltered(_, _, _)
LoadItemsUnfiltered(e, items, i) ==
  IF i > Len(items) THEN e
  ELSE IF items[i].t = "null" THEN [e EXCEPT !.caught = TRUE]
  ELSE LET b == ParsedBinding(items[i].o)
       IN LoadItemsUnfiltered([e EXCEPT !.bindings = MapSet(@, b.action, b),
                                        !.aliased = @ \ {b.action}],
                              items, i + 1)

\* The for-of loop of loadBindings over the parsed array, from item i.
\* Reading .action of a null item throws; the catch ends the loop.
RECURSIVE LoadItemsFrom(_, _, _)
LoadItemsFrom(e, items, i) ==
  IF i > Len(items) THEN e
  ELSE IF items[i].t = "null" THEN [e EXCEPT !.caught = TRUE]
  ELSE LET b == ParsedBinding(items[i].o)
       IN IF MapHas(e.bindings, b.action)
            THEN LoadItemsFrom([e EXCEPT !.bindings = MapSet(@, b.action, b),
                                         !.aliased = @ \ {b.action}],
                               items, i + 1)
            ELSE LoadItemsFrom(e, items, i + 1)

\* loadBindings(): getItem may throw (readOk = FALSE), JSON.parse throws on
\* unparseable text, for-of throws on a value that is not iterable.
LoadBindings(e, readOk) ==
  IF ~readOk THEN [e EXCEPT !.caught = TRUE]
  ELSE IF e.storage.t \in {"null", "empty"} THEN e
  ELSE IF e.storage.t \in {"invalid", "object"} THEN [e EXCEPT !.caught = TRUE]
  ELSE LoadItemsFrom(e, e.storage.items, 1)

-----------------------------------------------------------------------------
(* Context gate                                                             *)

\* An enableContext that switches to the context, disabling the others.
EnableContextExclusive(e, context) == [e EXCEPT !.activeContexts = {context}]

\* enableContext(context)
EnableContext(e, context) == [e EXCEPT !.activeContexts = @ \cup {context}]

\* A disableContext that also releases the actions bound in the context.
DisableContextReleasing(e, context) ==
  [e EXCEPT !.activeContexts = @ \ {context},
            !.actionStates =
               [a \in DOMAIN @ |->
                  IF MapHas(e.bindings, a) /\ MapGet(e.bindings, a).context = context
                    THEN RELEASED ELSE @[a]]]

\* disableContext(context)
DisableContext(e, context) == [e EXCEPT !.activeContexts = @ \ {context}]

\* A test that answers whether any context is enabled.
IsContextEnabledAny(e, context) == e.activeContexts # {}

\* isContextEnabled(context)
IsContextEnabled(e, context) == context \in e.activeContexts

-----------------------------------------------------------------------------
(* Queries                                                                  *)

\* this.keyStates.get(k) === true
KeyIsTrue(e, k) == MapHas(e.keyStates, k) /\ MapGet(e.keyStates, k)

\* getAxisValue(action): this.axisValues.get(action) || 0
GetAxisValue(e, action) ==
  IF UHas(e.axisValues, action) THEN UGet(e.axisValues, action) ELSE 0

\* A vector that keeps only the horizontal axis when it is not 0.
GetVector2ValueDominant(e, h, v) ==
  [x |-> GetAxisValue(e, h),
   y |-> IF GetAxisValue(e, h) # 0 THEN 0 ELSE GetAxisValue(e, v)]

\* getVector2Value(horizontalAction, verticalAction)
GetVector2Value(e, h, v) ==
  [x |-> GetAxisValue(e, h),
   y |-> GetAxisValue(e, v)]

IsActionInState(e, action, state) ==
  UHas(e.actionStates, action) /\ UGet(e.actionStates, action) = state

\* isKeyForActionPressed(action), as a boolean
IsKeyForActionPressed(e, action) ==
  IF ~MapHas(e.bindings, action) THEN FALSE
  ELSE LET b == MapGet(e.bindings, action)
       IN KeyIsTrue(e, b.primary)
          \/ (Truthy(b.secondary) /\ KeyIsTrue(e, b.secondary))

-----------------------------------------------------------------------------
(* Handler registration                                                     *)

\* registerActionHandler(action, handler)
RegisterActionHandler(e, action, h) ==
  LET hs == IF UHas(e.actionHandlers, action)
              THEN UGet(e.actionHandlers, action) ELSE << >>
  IN [e EXCEPT !.actionHandlers = USet(@, action, SetAdd(hs, h))]

\* An unsubscribe function that empties the action's Set.
UnsubscribeClear(e, action, h) ==
  IF UHas(e.actionHandlers, action)
    THEN [e EXCEPT !.actionHandlers = USet(@, action, << >>),
                   !.removed = IF SetHas(UGet(e.actionHandlers, action), h)
                                 THEN Append(@, h) ELSE @]
    ELSE e

\* The function returned by registerActionHandler(action, handler).
\* e.removed records the handlers that handlers.delete found in the Set.
Unsubscribe(e, action, h) ==
  IF UHas(e.actionHandlers, action)
    THEN [e EXCEPT !.actionHandlers =
                      USet(@, action, SetDelete(UGet(e.actionHandlers, action), h)),
                   !.removed = IF SetHas(UGet(e.actionHandlers, action), h)
                                 THEN Append(@, h) ELSE @]
    ELSE e

-----------------------------------------------------------------------------
(* Dispatch                                                                 *)

MovementActions == {"move-forward", "move-backward", "move-left", "move-right"}

\* The value notifyActionHandlers passes to the handlers of an action.
HandlerValue(e, action) ==
  IF action \in MovementActions THEN NumberValue(GetAxisValue(e, action))
  ELSE IF action = "camera-look" THEN VectorValue(GetAxisValue(e, "camera-look"), 0)
  ELSE NoValue

\* The body of a handler, run inside the engine's call.  hUnsub calls the
\* unsubscribe function that registerActionHandler(UnsubAction, UnsubTarget)
\* returned; the other handlers leave the engine alone.
HandlerBody(e, h) ==
  IF h = "hUnsub" THEN Unsubscribe(e, UnsubAction, UnsubTarget)
  ELSE IF h = "hDisable"
    THEN [DisableContext(e, GatedContext) EXCEPT !.gated = Append(@, GatedContext)]
  ELSE IF h = "hRegister" THEN RegisterActionHandler(e, LateAction, LateHandler)
  ELSE e

\* handler(state, value): the call is made; a throwing handler leaves an
\* exception propagating.
InvokeHandler(e, h, action, state, value) ==
  [HandlerBody(e, h) EXCEPT
     !.notified = Append(@, Notification(action, h, state, value)),
     !.raised = HandlerThrows(h)]

\* The position of a Set iterator that has visited entries 1..j of before,
\* once the Set's entries are after: entries deleted meanwhile are gone from
\* the list, entries added meanwhile are at its end.
NextIndex(before, after, j) ==
  1 + Cardinality({i \in 1..j : SetHas(after, before[i])})

\* The for-of loop of notifyActionHandlers over the live Set, from the j-th
\* entry.  Nothing catches what a handler throws: the loop ends there.
RECURSIVE NotifyFrom(_, _, _, _, _)
NotifyFrom(e, action, state, value, j) ==
  LET handlers == UGet(e.actionHandlers, action)
  IN IF j > Len(handlers) THEN e
     ELSE LET e1 == InvokeHandler(e, handlers[j], action, state, value)
          IN IF e1.raised THEN e1
             ELSE NotifyFrom(e1, action, state, value,
                             NextIndex(handlers, UGet(e1.actionHandlers, action), j))

\* A notification that reports a press as HELD.
NotifyActionHandlersHeld(e, action, state) ==
  IF ~UHas(e.actionHandlers, action) THEN e
  ELSE NotifyFrom(e, action, IF state = PRESSED THEN HELD ELSE state,
                  HandlerValue(e, action), 1)

\* notifyActionHandlers(action, state)
NotifyActionHandlers(e, action, state) ==
  IF ~UHas(e.actionHandlers, action) THEN e
  ELSE NotifyFrom(e, action, state, HandlerValue(e, action), 1)

\* The loop body without the test of the binding's context.
ProcessEntryUngated(e, i, key, pressed) ==
  LET actionType == e.bindings[i].k
      binding == e.bindings[i].v
      newState == IF pressed THEN PRESSED ELSE RELEASED
  IN IF binding.primary = key \/ binding.secondary = key
       THEN NotifyActionHandlers(
              [e EXCEPT !.actionStates = USet(@, actionType, newState)],
              actionType, newState)
       ELSE e

\* The body of processInputChange's loop for the i-th entry of the table.
ProcessEntry(e, i, key, pressed) ==
  LET actionType == e.bindings[i].k
      binding == e.bindings[i].v
      newState == IF pressed THEN PRESSED ELSE RELEASED
  IN IF binding.context \notin e.activeContexts THEN e
     ELSE IF binding.primary = key \/ binding.secondary = key
       THEN NotifyActionHandlers(
              [e EXCEPT !.actionStates = USet(@, actionType, newState)],
              actionType, newState)
       ELSE e

\* processInputChange(key, pressed), from the i-th entry of the table.
RECURSIVE ProcessFrom(_, _, _, _)
ProcessFrom(e, key, pressed, i) ==
  IF i > Len(e.bindings) THEN e
  ELSE LET e1 == ProcessEntry(e, i, key, pressed)
       IN IF e1.raised THEN e1 ELSE ProcessFrom(e1, key, pressed, i + 1)

ProcessInputChange(e, key, pressed) == ProcessFrom(e, key, pressed, 1)

\* An axis that looks at the positive action only.
AxisOfPositive(e, positive, negative) ==
  IF IsKeyForActionPressed(e, positive) THEN 1 ELSE 0

\* One axis of updateAxisValues.
AxisOf(e, positive, negative) ==
  (IF IsKeyForActionPressed(e, positive) THEN 1 ELSE 0)
  - (IF IsKeyForActionPressed(e, negative) THEN 1 ELSE 0)

\* updateAxisValues()
UpdateAxisValues(e) ==
  LET h == AxisOf(e, "move-right", "move-left")
      v == AxisOf(e, "move-forward", "move-backward")
  IN [e EXCEPT !.axisValues = USet(USet(@, "move-right", h), "move-forward", v)]

\* handleKeyDown(event), event.key = rawKey
HandleKeyDownRepeat(e, rawKey) ==
  LET key == ToLowerCase(rawKey)
      e1 == ProcessInputChange(
              [e EXCEPT !.keyStates = MapSet(@, key, TRUE)], key, TRUE)
  IN IF e1.raised THEN e1 ELSE UpdateAxisValues(e1)

\* handleKeyDown(event), event.key = rawKey
HandleKeyDown(e, rawKey) ==
  LET key == ToLowerCase(rawKey)
  IN IF KeyIsTrue(e, key) THEN e
     ELSE LET e1 == ProcessInputChange(
                      [e EXCEPT !.keyStates = MapSet(@, key, TRUE)], key, TRUE)
          IN IF e1.raised THEN e1 ELSE UpdateAxisValues(e1)

\* handleKeyUp(event), event.key = rawKey
HandleKeyUp(e, rawKey) ==
  LET key == ToLowerCase(rawKey)
      e1 == ProcessInputChange(
              [e EXCEPT !.keyStates = MapSet(@, key, FALSE)], key, FALSE)
  IN IF e1.raised THEN e1 ELSE UpdateAxisValues(e1)

\* `mouse${event.button}`
MouseToken(button) == "mouse" \o ToString(button)

\* handleMouseDown(event), event.button = button
HandleMouseDown(e, button) ==
  ProcessInputChange(
    [e EXCEPT !.keyStates = MapSet(@, MouseToken(button), TRUE)],
    MouseToken(button), TRUE)

\* handleMouseUp(event), event.button = button
HandleMouseUp(e, button) ==
  ProcessInputChange(
    [e EXCEPT !.keyStates = MapSet(@, MouseToken(button), FALSE)],
    MouseToken(button), FALSE)

\* The for-of loop of handleWindowBlur over keyStates.entries(), from the
\* i-th entry: a pressed control is set released and processed as a release.
RECURSIVE BlurFrom(_, _)
BlurFrom(e, i) ==
  IF i > Len(e.keyStates) THEN e
  ELSE IF e.keyStates[i].v
    THEN LET key == e.keyStates[i].k
             e1 == ProcessInputChange(
                     [e EXCEPT !.keyStates = MapSet(@, key, FALSE)], key, FALSE)
         IN IF e1.raised THEN e1 ELSE BlurFrom(e1, i + 1)
    ELSE BlurFrom(e, i + 1)

\* handleWindowBlur(): release every pressed control, then set every stored
\* axis value to 0.
\* A focus-loss handler that also empties the context gate.
HandleWindowBlurGate(e) ==
  LET e1 == BlurFrom(e, 1)
  IN IF e1.raised THEN e1
     ELSE [e1 EXCEPT !.axisValues = [a \in DOMAIN e1.axisValues |-> 0],
                     !.activeContexts = {}]

\* handleWindowBlur()
HandleWindowBlur(e) ==
  LET e1 == BlurFrom(e, 1)
  IN IF e1.raised THEN e1
     ELSE [e1 EXCEPT !.axisValues = [a \in DOMAIN e1.axisValues |-> 0]]

-----------------------------------------------------------------------------
(* Construction                                                             *)

\* Texts another writer (an earlier session, another build, the user) can
\* have left under the 'input_bindings' key.
TextEmpty == [t |-> "empty"]
TextInvalid == [t |-> "invalid"]
TextNotIterable == [t |-> "object"]
TextVehicleJump ==
  JArray(<< JObject([action |-> "jump", primary |-> " ", context |-> "vehicle",
                     description |-> "Hop", rebindable |-> FALSE]) >>)
TextUnknownAction ==
  JArray(<< JObject([action |-> "pause", primary |-> "p", context |-> "ui",
                     description |-> "Pause", rebindable |-> TRUE]),
            JObject([action |-> "sprint", primary |-> "K", secondary |-> "w",
                     context |-> "player", description |-> "Run", rebindable |-> TRUE]) >>)
TextNullItem ==
  JArray(<< JObject([action |-> "jump", primary |-> "k", context |-> "player",
                     description |-> "Jump", rebindable |-> TRUE]),
            [t |-> "null"],
            JObject([action |-> "crouch", primary |-> "c", context |-> "player",
                     description |-> "Crouch", rebindable |-> TRUE]) >>)
TextTwice ==
  JArray(<< JObject([action |-> "jump", primary |-> "j", context |-> "player",
                     description |-> "Jump", rebindable |-> TRUE]),
            JObject([action |-> "jump", primary |-> "k", secondary |-> "j",
                     context |-> "player", description |-> "Leap", rebindable |-> TRUE]) >>)

ForeignTexts ==
  {TextEmpty, TextInvalid, TextNotIterable, TextVehicleJump, TextUnknownAction,
   TextNullItem, TextTwice}

\* The fields of a new instance before the constructor body runs.
NewInstance(text) ==
  [defaultBindings |-> DefaultBindingsTable, aliased |-> {},
   bindings |-> << >>, activeContexts |-> {}, keyStates |-> << >>,
   actionStates |-> UEmpty, axisValues |-> UEmpty, actionHandlers |-> UEmpty,
   storage |-> text, notified |-> << >>, raised |-> FALSE, caught |-> FALSE,
   removed |-> << >>, gated |-> << >>]

\* constructor(): resetBindings, loadBindings, enableContext(PLAYER).
Constructor(text, readOk) ==
  EnableContext(LoadBindings(ResetBindings(NewInstance(text)), readOk), "player")

-----------------------------------------------------------------------------
(* Steps: one call of a public method, or one event delivered by the host   *)

NoRoundTrip == [stage |-> 0, table |-> << >>]

Last(op, args, ret, e) ==
  [op |-> op, args |-> args, ret |-> ret, raised |-> e.raised, caught |-> e.caught,
   removed |-> e.removed]

NoRegate == [stage |-> 0, key |-> Undefined]

\* The controls of the current binding of an action.
ControlsOf(e, action) ==
  IF MapHas(e.bindings, action)
    THEN {MapGet(e.bindings, action).primary, MapGet(e.bindings, action).secondary}
           \ {Undefined}
    ELSE {}

\* regate after the step recorded as l, taken from the current state.
\*   1: a key-down of a control of move-forward came while its context was
\*      disabled;  2: the context was enabled after that;  3: the control was
\*      then pressed again (a key-down that finds it released).
RegateAfter(l) ==
  LET key == ToLowerCase(l.args[1])
      ctx == MapGet(bindings, "move-forward").context
  IN IF ~MapHas(bindings, "move-forward")
          \/ l.op \in {"rebindAction", "resetBindings", "loadBindings"}
       THEN NoRegate
     ELSE IF l.op = "keydown" /\ key \in ControlsOf(Engine, "move-forward")
       THEN IF ctx \notin activeContexts THEN [stage |-> 1, key |-> key]
            ELSE IF regate.stage = 2 /\ regate.key = key
              THEN IF KeyIsTrue(Engine, key) THEN regate
                   ELSE [stage |-> 3, key |-> key]
            ELSE NoRegate
     ELSE IF l.op = "enableContext" /\ l.args[1] = ctx /\ regate.stage = 1
       THEN [regate EXCEPT !.stage = 2]
     ELSE IF l.op = "disableContext" /\ l.args[1] = ctx
       THEN NoRegate
     ELSE IF regate.stage = 3 THEN NoRegate
     ELSE regate

\* The movement pairs of updateAxisValues.
MovementPairs ==
  { [pos |-> "move-right", neg |-> "move-left"],
    [pos |-> "move-forward", neg |-> "move-backward"] }

NoCancel == [stage |-> 0, pos |-> Undefined, neg |-> Undefined, held |-> Undefined]

\* cancel after the step recorded as l, taken from the current state.
\*   1: with controls of both actions of a pair pressed, a key-up left only
\*      the controls of one action (held) pressed;
\*   2: a later key-up released that action's controls too.
CancelAfter(l) ==
  IF l.op = "keyup"
    THEN LET e1 == [Engine EXCEPT !.keyStates = MapSet(@, ToLowerCase(l.args[1]), FALSE)]
             both == {p \in MovementPairs :
                        /\ IsKeyForActionPressed(Engine, p.pos)
                        /\ IsKeyForActionPressed(Engine, p.neg)
                        /\ IsKeyForActionPressed(e1, p.pos) # IsKeyForActionPressed(e1, p.neg)}
         IN IF both # {}
              THEN LET p == CHOOSE q \in both : TRUE
                   IN [stage |-> 1, pos |-> p.pos, neg |-> p.neg,
                       held |-> IF IsKeyForActionPressed(e1, p.pos) THEN p.pos ELSE p.neg]
            ELSE IF cancel.stage = 1
              THEN IF IsKeyForActionPressed(e1, cancel.held) THEN cancel
                   ELSE [cancel EXCEPT !.stage = 2, !.held = Undefined]
            ELSE NoCancel
  ELSE IF l.op \in {"keydown", "mousedown", "mouseup", "blur", "rebindAction",
                    "resetBindings", "loadBindings"}
    THEN NoCancel
  ELSE IF cancel.stage = 2 THEN NoCancel
  ELSE cancel

\* gate after the constructor's enableContext(PLAYER).
GateAtConstruction ==
  [ever |-> {"player"}, enabledLast |-> {"player"}, disabledLast |-> {}]

\* gate after the step recorded as l.
GateAfter(l) ==
  IF l.op = "enableContext"
    THEN [ever |-> gate.ever \cup {l.args[1]},
          enabledLast |-> gate.enabledLast \cup {l.args[1]},
          disabledLast |-> gate.disabledLast \ {l.args[1]}]
  ELSE IF l.op = "disableContext"
    THEN [ever |-> gate.ever,
          enabledLast |-> gate.enabledLast \ {l.args[1]},
          disabledLast |-> gate.disabledLast \cup {l.args[1]}]
  ELSE gate

\* gate g after the calls of disableContext made by handlers during a step.
GateWithin(g, contexts) ==
  LET cs == {contexts[i] : i \in 1..Len(contexts)}
  IN [ever |-> g.ever, enabledLast |-> g.enabledLast \ cs,
      disabledLast |-> g.disabledLast \cup cs]

Commit(e, l, rt) ==
  /\ regate' = RegateAfter(l)
  /\ gate' = GateWithin(GateAfter(l), e.gated)
  /\ cancel' = CancelAfter(l)
  /\ defaultBindings' = e.defaultBindings
  /\ aliased' = e.aliased
  /\ bindings' = e.bindings
  /\ activeContexts' = e.activeContexts
  /\ keyStates' = e.keyStates
  /\ actionStates' = e.actionStates
  /\ axisValues' = e.axisValues
  /\ actionHandlers' = e.actionHandlers
  /\ storage' = e.storage
  /\ notified' = e.notified
  /\ last' = l
  /\ UNCHANGED << poolVars, inventoryVars >>
  /\ roundTrip' = rt

\* No ObjectPool has been constructed.
NoObjectPool == objectPool = Undefined /\ poolLast = Undefined

\* No InventoryService has been constructed.
NoInventory == inventory = Undefined /\ inventoryLast = Undefined

\* An InputService constructed over one of the stored texts.
InitInput(texts) ==
  \E text \in texts :
    LET e == Constructor(text, TRUE)
    IN /\ defaultBindings = e.defaultBindings
       /\ aliased = e.aliased
       /\ bindings = e.bindings
       /\ activeContexts = e.activeContexts
       /\ keyStates = e.keyStates
       /\ actionStates = e.actionStates
       /\ axisValues = e.axisValues
       /\ actionHandlers = e.actionHandlers
       /\ storage = e.storage
       /\ notified = e.notified
       /\ last = Last("constructor", << >>, "void", e)
       /\ roundTrip = NoRoundTrip
       /\ regate = NoRegate
       /\ cancel = NoCancel
       /\ gate = GateAtConstruction

InitWith(texts) == InitInput(texts) /\ NoObjectPool /\ NoInventory

RebindActionCall(action, primary, secondary) ==
  LET r == RebindAction(Engine, action, primary, secondary)
  IN Commit(r.e, Last("rebindAction", <<action, primary, secondary>>, r.ret, r.e),
            NoRoundTrip)

ResetBindingsCall ==
  LET e == ResetBindings(Engine)
  IN Commit(e, Last("resetBindings", << >>, "void", e),
            IF roundTrip.stage = 1 THEN [roundTrip EXCEPT !.stage = 2]
            ELSE NoRoundTrip)

SaveBindingsCall(writeOk) ==
  LET e == SaveBindings(Engine, writeOk)
  IN Commit(e, Last("saveBindings", << >>, "void", e),
            IF writeOk THEN [stage |-> 1, table |-> bindings] ELSE NoRoundTrip)

LoadBindingsCall(readOk) ==
  LET e == LoadBindings(Engine, readOk)
  IN Commit(e, Last("loadBindings", << >>, "void", e),
            IF readOk /\ roundTrip.stage = 2 THEN [roundTrip EXCEPT !.stage = 3]
            ELSE NoRoundTrip)

\* Another writer of localStorage replaces the text of the key.
StorageWrite(text) ==
  /\ storage # text
  /\ Commit([Engine EXCEPT !.storage = text],
            Last("storageWrite", << >>, "void", Engine), NoRoundTrip)

EnableContextCall(context) ==
  LET e == EnableContext(Engine, context)
  IN Commit(e, Last("enableContext", <<context>>, "void", e), NoRoundTrip)

DisableContextCall(context) ==
  LET e == DisableContext(Engine, context)
  IN Commit(e, Last("disableContext", <<context>>, "void", e), NoRoundTrip)

RegisterActionHandlerCall(action, h) ==
  LET e == RegisterActionHandler(Engine, action, h)
  IN Commit(e, Last("registerActionHandler", <<action, h>>, "void", e), NoRoundTrip)

\* Calling the function registerActionHandler(action, h) returned.
UnsubscribeCall(action, h) ==
  LET e == Unsubscribe(Engine, action, h)
  IN Commit(e, Last("unsubscribe", <<action, h>>, "void", e), NoRoundTrip)

KeyDownEvent(rawKey) ==
  LET e == HandleKeyDown(Engine, rawKey)
  IN Commit(e, Last("keydown", <<rawKey>>, "void", e), NoRoundTrip)

KeyUpEvent(rawKey) ==
  LET e == HandleKeyUp(Engine, rawKey)
  IN Commit(e, Last("keyup", <<rawKey>>, "void", e), NoRoundTrip)

MouseDownEvent(button) ==
  LET e == HandleMouseDown(Engine, button)
  IN Commit(e, Last("mousedown", <<MouseToken(button)>>, "void", e), NoRoundTrip)

MouseUpEvent(button) ==
  LET e == HandleMouseUp(Engine, button)
  IN Commit(e, Last("mouseup", <<MouseToken(button)>>, "void", e), NoRoundTrip)

WindowBlurEvent ==
  LET e == HandleWindowBlur(Engine)
  IN Commit(e, Last("blur", << >>, "void", e), NoRoundTrip)

-----------------------------------------------------------------------------
(* Binding table and persistence: rebind, reset, save, load                 *)

BindActions == {"jump", "menu-toggle", "pause"}
BindPrimaries == {"K", "w"}
BindSecondaries == {Undefined, "", "W"}

InitBind == InitWith({Null})

NextBind ==
  \/ \E a \in BindActions, p \in BindPrimaries, s \in BindSecondaries :
       RebindActionCall(a, p, s)
  \/ ResetBindingsCall
  \/ \E ok \in BOOLEAN : SaveBindingsCall(ok)
  \/ \E ok \in BOOLEAN : LoadBindingsCall(ok)
  \/ \E text \in ForeignTexts : StorageWrite(text)

SpecBind == InitBind /\ [][NextBind]_vars

-----------------------------------------------------------------------------
(* Properties of the binding table and its persistence (SpecBind)           *)

\* Two tables hold the same binding for the same actions.
SameTable(m1, m2) ==
  /\ MapKeys(m1) = MapKeys(m2)
  /\ \A a \in MapKeys(m1) : MapGet(m1, a) = MapGet(m2, a)

\* The step is a call of rebindAction; its arguments are in last'.
IsRebindStep == last'.op = "rebindAction"

\* C5: rebindAction returns false, raises nothing and leaves the whole
\* binding table unchanged when the action has no binding or its binding is
\* not rebindable, whatever primary and secondary are.
C5_RebindRefused ==
  [][ (IsRebindStep
       /\ (~MapHas(bindings, last'.args[1])
           \/ ~MapGet(bindings, last'.args[1]).rebindable))
      => (last'.ret = "false" /\ ~last'.raised /\ bindings' = bindings) ]_vars

\* A call rebindAction('menu-toggle', ...) was refused while menu-toggle
\* holds its non-rebindable default binding.
C5_Witness ==
  /\ last.op = "rebindAction"
  /\ last.args[1] = "menu-toggle"
  /\ last.ret = "false"
  /\ ~MapGet(bindings, "menu-toggle").rebindable

\* The bindings of all actions but a are the same before and after the step.
OthersUnchanged(a) ==
  /\ MapKeys(bindings') = MapKeys(bindings)
  /\ \A x \in MapKeys(bindings) \ {a} : MapGet(bindings', x) = MapGet(bindings, x)

\* C6 as stated: after a successful rebindAction the binding has
\* primary = lower-case(primary), secondary = lower-case(secondary), or
\* absent when secondary is omitted, the same context, description and
\* rebindable flag, and the other bindings are unchanged.
C6_Original ==
  [][ (IsRebindStep /\ last'.ret = "true")
      => LET a == last'.args[1]
             p == last'.args[2]
             s == last'.args[3]
             old == MapGet(bindings, a)
             new == MapGet(bindings', a)
         IN /\ new.primary = ToLowerCase(p)
            /\ new.secondary = (IF s = Undefined THEN Undefined ELSE ToLowerCase(s))
            /\ new.context = old.context
            /\ new.description = old.description
            /\ new.rebindable = old.rebindable
            /\ new.action = old.action
            /\ OthersUnchanged(a) ]_vars

\* C6 amended: the secondary control is absent afterwards when secondary is
\* omitted or is the empty string, and lower-case(secondary) otherwise.
C6_RebindResult ==
  [][ (IsRebindStep /\ last'.ret = "true")
      => LET a == last'.args[1]
             p == last'.args[2]
             s == last'.args[3]
             old == MapGet(bindings, a)
             new == MapGet(bindings', a)
         IN /\ new.primary = ToLowerCase(p)
            /\ new.secondary = (IF s \in {Undefined, ""} THEN Undefined
                                ELSE ToLowerCase(s))
            /\ new.context = old.context
            /\ new.description = old.description
            /\ new.rebindable = old.rebindable
            /\ new.action = old.action
            /\ OthersUnchanged(a) ]_vars

\* jump was rebound with primary 'K' and the empty string as secondary: it
\* is bound to 'k' and has no secondary control.
C6_Witness ==
  /\ last.op = "rebindAction"
  /\ last.ret = "true"
  /\ last.args = <<"jump", "K", "">>
  /\ MapGet(bindings, "jump").primary = "k"
  /\ MapGet(bindings, "jump").secondary = Undefined

\* C7: after saveBindings(), resetBindings(), loadBindings() in a row (the
\* store accepting the write and the read), the table equals, action by
\* action, the table saveBindings() was called on.
C7_RoundTrip ==
  roundTrip.stage = 3 => SameTable(bindings, roundTrip.table)

\* A round trip was completed on a table in which jump had been rebound to
\* 'k' with secondary 'w'.
C7_Witness ==
  /\ roundTrip.stage = 3
  /\ MapGet(roundTrip.table, "jump").primary = "k"
  /\ MapGet(roundTrip.table, "jump").secondary = "w"

\* C8: the defaultBindings template is never changed, and right after
\* resetBindings() every action of the default table has exactly its
\* shipped binding.
C8_ResetRestoresDefaults ==
  /\ defaultBindings = DefaultBindingsTable
  /\ last.op = "resetBindings"
       => \A i \in 1..Len(DefaultBindingsTable) :
            GetBinding(Engine, DefaultBindingsTable[i].action) = DefaultBindingsTable[i]

\* resetBindings() ran on a table in which jump had been rebound (the
\* rebound table was saved just before).
C8_Witness ==
  /\ last.op = "resetBindings"
  /\ roundTrip.stage = 2
  /\ MapGet(roundTrip.table, "jump").primary = "k"

\* The persisted bindings of a stored text: the items of its array.
PersistedItems(text) == IF text.t = "array" THEN text.items ELSE << >>

\* The positions of the persisted bindings for action a.
PersistedFor(items, a) ==
  {i \in 1..Len(items) : items[i].t = "object" /\ Prop(items[i].o, "action") = a}

Largest(S) == CHOOSE i \in S : \A j \in S : j <= i

\* C9: loadBindings() never changes the set of bound actions; when the
\* import runs to its end, an action with persisted bindings holds the
\* (last) persisted binding for it, whole, and every other entry is
\* unchanged.
C9_ImportSemantics ==
  [][ last'.op = "loadBindings"
      => /\ MapKeys(bindings') = MapKeys(bindings)
         /\ ~last'.caught
              => \A a \in MapKeys(bindings) :
                   LET items == PersistedItems(storage)
                       at == PersistedFor(items, a)
                   IN MapGet(bindings', a) =
                        (IF at = {} THEN MapGet(bindings, a)
                         ELSE ParsedBinding(items[Largest(at)].o)) ]_vars

\* A text with a binding for pause (no entry) and one for sprint was
\* imported: sprint took the persisted binding.
C9_Witness ==
  /\ last.op = "loadBindings"
  /\ ~last.caught
  /\ storage = TextUnknownAction
  /\ MapGet(bindings, "sprint").description = "Run"

\* C10: a loadBindings() that finds no stored key or meets an error, and a
\* saveBindings() that meets an error, let no exception escape and leave the
\* in-memory state as it was.
C10_FailureIsNoOp ==
  [][ ( \/ (last'.op = "loadBindings" /\ (last'.caught \/ storage.t = "null"))
        \/ (last'.op = "saveBindings" /\ last'.caught) )
      => (~last'.raised /\ bindings' = bindings
          /\ defaultBindings' = defaultBindings) ]_vars

-----------------------------------------------------------------------------
(* The context gate: raw events on controls of bindings in two contexts     *)

GateKeys == {" "}
GateButtons == {1}
GateContexts == {"player", "vehicle"}
GateHandlerActions == {"jump"}
GateHandlers == {"hOk"}

InitGate == InitWith({TextVehicleJump})

NextGate ==
  \/ \E k \in GateKeys : KeyDownEvent(k)
  \/ \E k \in GateKeys : KeyUpEvent(k)
  \/ \E b \in GateButtons : MouseDownEvent(b)
  \/ \E b \in GateButtons : MouseUpEvent(b)
  \/ \E c \in GateContexts : EnableContextCall(c)
  \/ \E c \in GateContexts : DisableContextCall(c)
  \/ \E a \in GateHandlerActions, h \in GateHandlers : RegisterActionHandlerCall(a, h)
  \/ \E a \in GateHandlerActions, h \in GateHandlers : UnsubscribeCall(a, h)

SpecGate == InitGate /\ [][NextGate]_vars

-----------------------------------------------------------------------------
(* Re-enabling a context: move-forward, its control and its handlers        *)

RegateKeys == {"w", "W"}
RegateContexts == {"player"}
RegateHandlerActions == {"move-forward"}

InitRegate == InitWith({Null})

NextRegate ==
  \/ \E k \in RegateKeys : KeyDownEvent(k)
  \/ \E k \in RegateKeys : KeyUpEvent(k)
  \/ \E c \in RegateContexts : EnableContextCall(c)
  \/ \E c \in RegateContexts : DisableContextCall(c)
  \/ \E a \in RegateHandlerActions, h \in Handlers : RegisterActionHandlerCall(a, h)
  \/ \E a \in RegateHandlerActions, h \in Handlers : UnsubscribeCall(a, h)

SpecRegate == InitRegate /\ [][NextRegate]_vars

-----------------------------------------------------------------------------
(* Fan-out: controls shared by several actions, handlers that may throw     *)

FanOutKeys == {" "}
FanOutButtons == {1}
FanOutContexts == {"player"}
FanOutHandlerActions == {"jump", "release-grapple"}

InitFanOut == InitWith({Null})

NextFanOut ==
  \/ \E k \in FanOutKeys : KeyDownEvent(k)
  \/ \E k \in FanOutKeys : KeyUpEvent(k)
  \/ \E b \in FanOutButtons : MouseDownEvent(b)
  \/ \E b \in FanOutButtons : MouseUpEvent(b)
  \/ \E c \in FanOutContexts : EnableContextCall(c)
  \/ \E c \in FanOutContexts : DisableContextCall(c)
  \/ \E a \in FanOutHandlerActions, h \in Handlers : RegisterActionHandlerCall(a, h)
  \/ \E a \in FanOutHandlerActions, h \in Handlers : UnsubscribeCall(a, h)

SpecFanOut == InitFanOut /\ [][NextFanOut]_vars

-----------------------------------------------------------------------------
(* Properties of dispatch                                                   *)

RawEventOps == {"keydown", "keyup", "mousedown", "mouseup"}

\* The control token of the raw event recorded as l.
EventToken(l) == ToLowerCase(l.args[1])

\* The state of an action in an action-state map, Undefined when absent.
StateOf(as, a) == IF UHas(as, a) THEN UGet(as, a) ELSE Undefined

\* The handlers registered for an action.
HandlersOf(hs, a) == IF UHas(hs, a) THEN {UGet(hs, a)[i] : i \in 1..Len(UGet(hs, a))} ELSE {}

\* Handler h of action a was invoked with state st in the calls n.
WasNotified(n, a, h, st) ==
  \E i \in 1..Len(n) : n[i].action = a /\ n[i].handler = h /\ n[i].state = st

\* Some handler of action a was invoked in the calls n.
AnyNotified(n, a) == \E i \in 1..Len(n) : n[i].action = a

\* Action a is bound to control token tok in table m.
BoundTo(m, a, tok) == MapGet(m, a).primary = tok \/ MapGet(m, a).secondary = tok

\* C1: a key or mouse, down or up event for a control bound to an action
\* whose binding's context is not active leaves that action's state
\* unchanged and invokes none of its handlers.
C1_ContextGating ==
  [][ last'.op \in RawEventOps
      => \A a \in MapKeys(bindings) :
           (BoundTo(bindings, a, EventToken(last'))
            /\ MapGet(bindings, a).context \notin activeContexts)
           => (StateOf(actionStates', a) = StateOf(actionStates, a)
               /\ ~AnyNotified(notified', a)) ]_vars

\* ' ' went down while jump (context vehicle, disabled) and release-grapple
\* (context player, enabled) were bound to it and jump had a handler:
\* release-grapple is pressed, jump has no state, nothing was invoked.
C1_Witness ==
  /\ last.op = "keydown"
  /\ last.args = <<" ">>
  /\ MapGet(bindings, "jump").context = "vehicle"
  /\ activeContexts = {"player"}
  /\ HandlersOf(actionHandlers, "jump") = {"hOk"}
  /\ IsActionInState(Engine, "release-grapple", PRESSED)
  /\ ~UHas(actionStates, "jump")
  /\ notified = << >>

\* C2: once move-forward's control went down while its context was
\* disabled and the context was enabled after that, pressing the control
\* again sets move-forward to PRESSED and notifies its handlers.
C2_PressAfterEnable ==
  regate.stage = 3
    => /\ IsActionInState(Engine, "move-forward", PRESSED)
       /\ \A h \in HandlersOf(actionHandlers, "move-forward") :
            WasNotified(notified, "move-forward", h, PRESSED)

\* The raw event recorded as l, arriving in the current state, is a press
\* that is processed: a mouse-down, or a key-down of a key not held.
IsPress(l) ==
  \/ l.op = "mousedown"
  \/ l.op = "keydown" /\ ~KeyIsTrue(Engine, EventToken(l))

\* C3: one press of a control sets every action bound to it (primary or
\* secondary) in an enabled context to PRESSED and notifies all handlers of
\* each of them in that pass.
C3_FanOut ==
  [][ IsPress(last')
      => \A a \in MapKeys(bindings) :
           (BoundTo(bindings, a, EventToken(last'))
            /\ MapGet(bindings, a).context \in activeContexts)
           => (StateOf(actionStates', a) = PRESSED
               /\ \A h \in HandlersOf(actionHandlers, a) :
                    WasNotified(notified', a, h, PRESSED)) ]_vars

\* C4: when a handler raises, the exception does not leave the event entry
\* point, the other handlers of the action and the other matched actions
\* are still notified, and a keyboard event still recomputes the axes.
C4_HandlerIsolation ==
  [][ (last'.op \in RawEventOps
       /\ \E i \in 1..Len(notified') : HandlerThrows(notified'[i].handler))
      => /\ ~last'.raised
         /\ \A a \in MapKeys(bindings) :
              (BoundTo(bindings, a, EventToken(last'))
               /\ MapGet(bindings, a).context \in activeContexts)
              => \A h \in HandlersOf(actionHandlers, a) :
                   \E i \in 1..Len(notified') :
                     notified'[i].action = a /\ notified'[i].handler = h
         /\ last'.op \in {"keydown", "keyup"}
              => axisValues' = UpdateAxisValues([Engine EXCEPT !.keyStates = keyStates']).axisValues ]_vars

-----------------------------------------------------------------------------
(* Focus loss: controls held when the window loses focus                    *)

BlurKeys == {"d", " "}
BlurContexts == {"player"}
BlurHandlerActions == {"jump"}

InitBlur == InitWith({Null})

NextBlur ==
  \/ \E k \in BlurKeys : KeyDownEvent(k)
  \/ \E k \in BlurKeys : KeyUpEvent(k)
  \/ WindowBlurEvent
  \/ \E c \in BlurContexts : EnableContextCall(c)
  \/ \E c \in BlurContexts : DisableContextCall(c)
  \/ \E a \in BlurHandlerActions, h \in Handlers : RegisterActionHandlerCall(a, h)
  \/ \E a \in BlurHandlerActions, h \in Handlers : UnsubscribeCall(a, h)

SpecBlur == InitBlur /\ [][NextBlur]_vars

\* C11: after the focus-loss handler every tracked raw control is released
\* and every stored axis value is 0.
C11_BlurReleasesAll ==
  last.op = "blur"
    => /\ \A i \in 1..Len(keyStates) : ~keyStates[i].v
       /\ \A a \in DOMAIN axisValues : axisValues[a] = 0

\* The control tokens pressed in the current state.
PressedControls == {keyStates[i].k : i \in {j \in 1..Len(keyStates) : keyStates[j].v}}

\* C12: during the focus-loss release, every action bound to a control that
\* was pressed, in an enabled context, becomes RELEASED and each of its
\* handlers is notified with RELEASED; an action whose context is disabled
\* is neither changed nor notified.
C12_BlurReleaseTransitions ==
  [][ last'.op = "blur"
      => \A a \in MapKeys(bindings) :
           IF MapGet(bindings, a).context \in activeContexts
             THEN (\E c \in PressedControls : BoundTo(bindings, a, c))
                  => (StateOf(actionStates', a) = RELEASED
                      /\ \A h \in HandlersOf(actionHandlers, a) :
                           WasNotified(notified', a, h, RELEASED))
             ELSE (StateOf(actionStates', a) = StateOf(actionStates, a)
                   /\ ~AnyNotified(notified', a)) ]_vars

-----------------------------------------------------------------------------
(* Axis values: the two controls of the horizontal movement pair            *)

AxisKeys == {"a", "d"}
AxisHandlerActions == {"move-right", "move-left"}

InitAxis == InitWith({Null})

NextAxis ==
  \/ \E k \in AxisKeys : KeyDownEvent(k)
  \/ \E k \in AxisKeys : KeyUpEvent(k)
  \/ \E a \in AxisHandlerActions, h \in Handlers : RegisterActionHandlerCall(a, h)
  \/ \E a \in AxisHandlerActions, h \in Handlers : UnsubscribeCall(a, h)

SpecAxis == InitAxis /\ [][NextAxis]_vars

\* Some control of the current binding of action a is pressed.
Held(a) == \E c \in ControlsOf(Engine, a) : KeyIsTrue(Engine, c)

\* The axis of a pair as the discrete axis model defines it.
PairAxis(pos, neg) ==
  IF Held(pos) /\ ~Held(neg) THEN 1
  ELSE IF Held(neg) /\ ~Held(pos) THEN -1
  ELSE 0

\* C13: after every keyboard key-down or key-up event the axis of each
\* movement pair is +1, -1 or 0 as the discrete axis model says, from the
\* controls now pressed.
C13_DiscreteAxis ==
  last.op \in {"keydown", "keyup"}
    => \A p \in MovementPairs :
         /\ GetAxisValue(Engine, p.pos) = PairAxis(p.pos, p.neg)
         /\ GetAxisValue(Engine, p.pos) \in {-1, 0, 1}

C16_AxisBeforeNotify ==
  [][ last'.op \in RawEventOps
      => \A i \in 1..Len(notified') :
           notified'[i].action \in MovementActions
           => notified'[i].value =
                NumberValue(GetAxisValue([Engine EXCEPT !.axisValues = axisValues'],
                                         notified'[i].action)) ]_vars

\* C17: after a key event, getAxisValue of the negative action of a pair
\* gives the pair's axis, as getAxisValue of the positive action does.
C17_NegativeAxis ==
  last.op \in {"keydown", "keyup"}
    => \A p \in MovementPairs :
         GetAxisValue(Engine, p.neg) = GetAxisValue(Engine, p.pos)

-----------------------------------------------------------------------------
(* Axis values across rebinding and mouse events                            *)

StaleKeys == {"d"}
StaleButtons == {1}
StaleActions == {"move-right"}
StalePrimaries == {"k", "mouse1"}

InitStale == InitWith({Null})

NextStale ==
  \/ \E k \in StaleKeys : KeyDownEvent(k)
  \/ \E k \in StaleKeys : KeyUpEvent(k)
  \/ \E b \in StaleButtons : MouseDownEvent(b)
  \/ \E b \in StaleButtons : MouseUpEvent(b)
  \/ \E a \in StaleActions, p \in StalePrimaries : RebindActionCall(a, p, Undefined)
  \/ ResetBindingsCall

SpecStale == InitStale /\ [][NextStale]_vars

\* C15: in every state between operations the stored axis value of each
\* movement pair is the value derived from the current raw states of the
\* controls currently bound to the pair's actions.
C15_AxisDerived ==
  \A p \in MovementPairs : GetAxisValue(Engine, p.pos) = PairAxis(p.pos, p.neg)

-----------------------------------------------------------------------------
(* Queries of the axis values                                               *)

QueryKeys == {"a", "d", "w"}
QueryHorizontal == {"move-right", "move-left"}
QueryVertical == {"move-forward"}

InitQuery == InitWith({Null})

\* A caller's getVector2Value(h, v); the object returned is last.vector.
GetVector2ValueCall(h, v) ==
  LET l == Last("getVector2Value", <<h, v>>, "object", Engine)
  IN Commit(Engine,
            [op |-> l.op, args |-> l.args, ret |-> l.ret, raised |-> l.raised,
             caught |-> l.caught, removed |-> l.removed,
             vector |-> GetVector2Value(Engine, h, v)],
            NoRoundTrip)

NextQuery ==
  \/ \E k \in QueryKeys : KeyDownEvent(k)
  \/ \E k \in QueryKeys : KeyUpEvent(k)
  \/ \E h \in QueryHorizontal, v \in QueryVertical : GetVector2ValueCall(h, v)

SpecQuery == InitQuery /\ [][NextQuery]_vars

\* C18: getVector2Value(h, v) returns {x: getAxisValue(h), y: getAxisValue(v)}
\* and changes nothing; with one horizontal and one vertical movement control
\* held, getVector2Value(move-right, move-forward) has |x| = |y| = 1.
C18_Vector2 ==
  [][ last'.op = "getVector2Value"
      => /\ last'.vector.x = GetAxisValue(Engine, last'.args[1])
         /\ last'.vector.y = GetAxisValue(Engine, last'.args[2])
         /\ UNCHANGED << defaultBindings, bindings, activeContexts, keyStates,
                         actionStates, axisValues, actionHandlers, storage >>
         /\ ( /\ last'.args = <<"move-right", "move-forward">>
              /\ Held("move-right") # Held("move-left")
              /\ Held("move-forward") # Held("move-backward") )
            => /\ last'.vector.x \in {-1, 1}
               /\ last'.vector.y \in {-1, 1} ]_vars

\* 'a' and 'w' are held and getVector2Value(move-right, move-forward) has
\* returned {x: -1, y: 1}.
C18_Witness ==
  /\ last.op = "getVector2Value"
  /\ last.args = <<"move-right", "move-forward">>
  /\ KeyIsTrue(Engine, "a") /\ ~KeyIsTrue(Engine, "d") /\ KeyIsTrue(Engine, "w")
  /\ last.vector = [x |-> -1, y |-> 1]

-----------------------------------------------------------------------------
(* Unsubscribing, between dispatches and during one                         *)

UnsubKeys == {" "}
UnsubHandlerActions == {"jump"}
UnsubHandlers == {"hOk", "hOk2", "hThrow", "hUnsub"}

InitUnsub == InitWith({Null})

NextUnsub ==
  \/ \E k \in UnsubKeys : KeyDownEvent(k)
  \/ \E k \in UnsubKeys : KeyUpEvent(k)
  \/ \E a \in UnsubHandlerActions, h \in UnsubHandlers : RegisterActionHandlerCall(a, h)
  \/ \E a \in UnsubHandlerActions, h \in UnsubHandlers : UnsubscribeCall(a, h)

SpecUnsub == InitUnsub /\ [][NextUnsub]_vars

\* The handlers of action a invoked according to the notifications n.
Invoked(n, a) == {n[i].handler : i \in {j \in 1..Len(n) : n[j].action = a}}

\* How many times the notifications n invoke handler h of action a.
TimesInvoked(n, a, h) ==
  Cardinality({i \in 1..Len(n) : n[i].action = a /\ n[i].handler = h})

\* C19: a call of the unsubscribe function of (action, handler) never raises
\* and removes that handler only; a dispatch of the action made after it does
\* not invoke the handler and invokes every other handler that a dispatch
\* made before it would have invoked; a dispatch invokes registered handlers
\* only.
C19_Unsubscribe ==
  [][ /\ last'.op = "unsubscribe"
         => LET a == last'.args[1]
                h == last'.args[2]
                after == [Engine EXCEPT !.actionHandlers = actionHandlers']
            IN /\ ~last'.raised
               /\ HandlersOf(actionHandlers', a) = HandlersOf(actionHandlers, a) \ {h}
               /\ \A b \in InputActionType \ {a} :
                    HandlersOf(actionHandlers', b) = HandlersOf(actionHandlers, b)
               /\ \A st \in {PRESSED, RELEASED} :
                    LET n0 == NotifyActionHandlers(Engine, a, st).notified
                        n1 == NotifyActionHandlers(after, a, st).notified
                    IN /\ h \notin Invoked(n1, a)
                       /\ Invoked(n0, a) \ {h} \subseteq Invoked(n1, a)
      /\ last'.op \in RawEventOps
         => \A i \in 1..Len(notified') :
              notified'[i].handler \in HandlersOf(actionHandlers, notified'[i].action)
    ]_vars

\* The unsubscribe function of (jump, hOk) has removed hOk, and hOk2 is
\* still registered for jump.
C19_Witness ==
  /\ last.op = "unsubscribe"
  /\ last.args = <<"jump", "hOk">>
  /\ last.removed = <<"hOk">>
  /\ "hOk2" \in HandlersOf(actionHandlers, "jump")

\* The position of handler h in the Set s (0 if it is not in it).
PositionOf(s, h) == IF SetHas(s, h) THEN CHOOSE i \in 1..Len(s) : s[i] = h ELSE 0

\* C20: when, in a pass over an action's handlers, a handler unsubscribes
\* another handler of the action that the pass has not invoked yet, the pass
\* does not invoke the removed handler, invokes every other registered
\* handler exactly once and raises no error.
C20_UnsubscribeInPass ==
  [][ \A a \in UnsubHandlerActions :
        LET before == IF UHas(actionHandlers, a) THEN UGet(actionHandlers, a) ELSE << >>
        IN ( /\ last'.op \in RawEventOps
             /\ a = UnsubAction
             /\ "hUnsub" \in Invoked(notified', a)
             /\ last'.removed = <<UnsubTarget>>
             /\ PositionOf(before, "hUnsub") < PositionOf(before, UnsubTarget) )
           => /\ UnsubTarget \notin Invoked(notified', a)
              /\ \A g \in HandlersOf(actionHandlers, a) \ {UnsubTarget} :
                   TimesInvoked(notified', a, g) = 1
              /\ ~last'.raised ]_vars

-----------------------------------------------------------------------------
(* Lookups: the query methods, called between the other operations          *)

\* A boolean result as recorded in last.ret.
BooleanText(b) == IF b THEN "true" ELSE "false"

\* A caller's getBinding(action).
GetBindingCall(action) ==
  Commit(Engine,
         Last("getBinding", <<action>>,
              IF GetBinding(Engine, action) = Null THEN "null" ELSE "object", Engine),
         NoRoundTrip)

\* A caller's isContextEnabled(context).
IsContextEnabledCall(context) ==
  Commit(Engine,
         Last("isContextEnabled", <<context>>,
              BooleanText(IsContextEnabled(Engine, context)), Engine),
         NoRoundTrip)

\* A caller's getAxisValue(action); the number returned is last.number.
GetAxisValueCall(action) ==
  LET l == Last("getAxisValue", <<action>>, "number", Engine)
  IN Commit(Engine,
            [op |-> l.op, args |-> l.args, ret |-> l.ret, raised |-> l.raised,
             caught |-> l.caught, removed |-> l.removed,
             number |-> GetAxisValue(Engine, action)],
            NoRoundTrip)

\* A caller's isActionInState(action, state).
IsActionInStateCall(action, state) ==
  Commit(Engine,
         Last("isActionInState", <<action, state>>,
              BooleanText(IsActionInState(Engine, action, state)), Engine),
         NoRoundTrip)

LookupKeys == {" "}
LookupGateContexts == {"player", "vehicle"}
LookupContexts == {"player", "vehicle", "ui"}
LookupActions == {"jump", "move-right", "pick-up"}
LookupHandlerActions == {"jump"}

InitLookup == InitWith({Null})

NextLookup ==
  \/ \E k \in LookupKeys : KeyDownEvent(k)
  \/ \E k \in LookupKeys : KeyUpEvent(k)
  \/ \E c \in LookupGateContexts : EnableContextCall(c)
  \/ \E c \in LookupGateContexts : DisableContextCall(c)
  \/ \E a \in LookupHandlerActions, h \in Handlers : RegisterActionHandlerCall(a, h)
  \/ \E a \in LookupHandlerActions, h \in Handlers : UnsubscribeCall(a, h)
  \/ \E a \in LookupActions : GetBindingCall(a)
  \/ \E c \in LookupContexts : IsContextEnabledCall(c)
  \/ \E a \in LookupActions : GetAxisValueCall(a)
  \/ \E a \in LookupActions, st \in InputState : IsActionInStateCall(a, st)

SpecLookup == InitLookup /\ [][NextLookup]_vars

\* C21: a lookup of something unknown returns its default and does not
\* raise: getBinding of an action without a binding returns null,
\* isContextEnabled of a context never enabled returns false, getAxisValue of
\* an action without a stored axis returns 0, isActionInState(action, PRESSED)
\* of an action whose state was never set returns false (an entry of the
\* action states is never removed, so an absent one was never set); a key or
\* mouse event whose matched actions have no handlers does not raise.
C21_UnknownLookups ==
  [][ /\ (last'.op = "getBinding" /\ ~MapHas(bindings, last'.args[1]))
         => (last'.ret = "null" /\ ~last'.raised)
      /\ (last'.op = "isContextEnabled" /\ last'.args[1] \notin gate.ever)
         => (last'.ret = "false" /\ ~last'.raised)
      /\ (last'.op = "getAxisValue" /\ ~UHas(axisValues, last'.args[1]))
         => (last'.number = 0 /\ ~last'.raised)
      /\ (last'.op = "isActionInState" /\ last'.args[2] = PRESSED
            /\ ~UHas(actionStates, last'.args[1]))
         => (last'.ret = "false" /\ ~last'.raised)
      /\ \A a \in InputActionType : UHas(actionStates, a) => UHas(actionStates', a)
      /\ ( /\ last'.op \in {"keydown", "keyup", "mousedown", "mouseup"}
           /\ \A a \in MapKeys(bindings) :
                BoundTo(bindings, a, EventToken(last'))
                => HandlersOf(actionHandlers, a) = {} )
         => ~last'.raised ]_vars

\* With the player context enabled, isContextEnabled of the context ui,
\* which was never enabled, has returned false.
C21_Witness ==
  /\ last.op = "isContextEnabled"
  /\ last.args = <<"ui">>
  /\ "ui" \notin gate.ever
  /\ "player" \in activeContexts
  /\ last.ret = "false"
  /\ ~last.raised

\* C22: an action whose state has never been set is treated as released:
\* isActionInState(action, RELEASED) returns true for it and
\* isActionInState(action, PRESSED) returns false.
C22_NeverSetIsReleased ==
  [][ (last'.op = "isActionInState" /\ ~UHas(actionStates, last'.args[1]))
      => /\ last'.args[2] = RELEASED => last'.ret = "true"
         /\ last'.args[2] = PRESSED => last'.ret = "false" ]_vars

\* C23: after construction with nothing stored under the bindings key, and
\* after resetBindings and loadBindings, getBinding(action) is non-null for
\* every member of InputActionType.
C23_NoActionUnbound ==
  last.op \in {"constructor", "resetBindings", "loadBindings"}
    => \A a \in InputActionType : GetBinding(Engine, a) # Null

\* C24: enableContext of an enabled context and disableContext of a context
\* that is not enabled change nothing; a call for one context leaves every
\* other context as it was; a context is enabled exactly when the latest
\* enableContext / disableContext call for it was enableContext, and
\* isContextEnabled answers that.
C24_GateAlgebra ==
  [][ /\ last'.op = "enableContext"
         => /\ activeContexts' \ {last'.args[1]} = activeContexts \ {last'.args[1]}
            /\ last'.args[1] \in activeContexts => activeContexts' = activeContexts
      /\ last'.op = "disableContext"
         => /\ activeContexts' \ {last'.args[1]} = activeContexts \ {last'.args[1]}
            /\ last'.args[1] \notin activeContexts => activeContexts' = activeContexts
      /\ \A c \in InputContext :
           IsContextEnabled([Engine EXCEPT !.activeContexts = activeContexts'], c)
             <=> c \in gate'.enabledLast
      /\ last'.op = "isContextEnabled"
         => last'.ret = BooleanText(last'.args[1] \in gate.enabledLast) ]_vars

\* The context vehicle was enabled and then disabled, the player context is
\* still enabled, and isContextEnabled(vehicle) has returned false.
C24_Witness ==
  /\ last.op = "isContextEnabled"
  /\ last.args = <<"vehicle">>
  /\ "vehicle" \in gate.ever
  /\ "vehicle" \in gate.disabledLast
  /\ "player" \in gate.enabledLast
  /\ activeContexts = {"player"}
  /\ last.ret = "false"

\* C25: immediately after construction isContextEnabled(c) is false for
\* every context c, so no binding's context is enabled.
C25_GateEmptyAtConstruction ==
  last.op = "constructor"
    => /\ \A c \in InputContext : ~IsContextEnabled(Engine, c)
       /\ \A a \in MapKeys(bindings) :
            ~IsContextEnabled(Engine, MapGet(bindings, a).context)

-----------------------------------------------------------------------------
(* Frames: every kind of operation, on one key, one button and one context  *)

FrameKeys == {" "}
FrameButtons == {0}
FrameContexts == {"player"}
FrameActions == {"jump"}
FramePrimaries == {"k"}
FrameHandlerActions == {"jump"}
FrameHandlers == {"hOk"}

InitFrame == InitWith({Null})

NextFrame ==
  \/ \E k \in FrameKeys : KeyDownEvent(k)
  \/ \E k \in FrameKeys : KeyUpEvent(k)
  \/ \E b \in FrameButtons : MouseDownEvent(b)
  \/ \E b \in FrameButtons : MouseUpEvent(b)
  \/ WindowBlurEvent
  \/ \E c \in FrameContexts : EnableContextCall(c)
  \/ \E c \in FrameContexts : DisableContextCall(c)
  \/ \E a \in FrameActions, p \in FramePrimaries : RebindActionCall(a, p, Undefined)
  \/ ResetBindingsCall
  \/ \E ok \in BOOLEAN : SaveBindingsCall(ok)
  \/ \E ok \in BOOLEAN : LoadBindingsCall(ok)
  \/ \E a \in FrameHandlerActions, h \in FrameHandlers : RegisterActionHandlerCall(a, h)
  \/ \E a \in FrameHandlerActions, h \in FrameHandlers : UnsubscribeCall(a, h)

SpecFrame == InitFrame /\ [][NextFrame]_vars

\* C26: no operation other than enableContext and disableContext changes
\* the set of active contexts.
C26_GateFrame ==
  [][ last'.op \notin {"enableContext", "disableContext"}
      => activeContexts' = activeContexts ]_vars

\* A focus loss has released the pressed space key and the player context
\* is still enabled.
C26_Witness ==
  /\ last.op = "blur"
  /\ ~last.raised
  /\ MapHas(keyStates, " ") /\ ~MapGet(keyStates, " ")
  /\ StateOf(actionStates, "jump") = RELEASED
  /\ activeContexts = {"player"}

\* C29: enableContext, disableContext, rebindAction, resetBindings,
\* saveBindings, loadBindings, registerActionHandler and unsubscribe leave
\* every action state unchanged; an action's state changes only in a key or
\* mouse event, or a focus-loss release, of a control bound to the action
\* while the context of its binding is enabled.
C29_ActionStateFrame ==
  [][ /\ last'.op \in {"enableContext", "disableContext", "rebindAction",
                       "resetBindings", "saveBindings", "loadBindings",
                       "registerActionHandler", "unsubscribe"}
         => actionStates' = actionStates
      /\ \A a \in InputActionType :
           StateOf(actionStates', a) # StateOf(actionStates, a)
           => /\ last'.op \in RawEventOps \cup {"blur"}
              /\ MapHas(bindings, a)
              /\ MapGet(bindings, a).context \in activeContexts
              /\ IF last'.op = "blur"
                   THEN \E c \in PressedControls : BoundTo(bindings, a, c)
                   ELSE BoundTo(bindings, a, EventToken(last')) ]_vars

\* The player context was disabled while jump was PRESSED, and jump is
\* still PRESSED.
C29_Witness ==
  /\ last.op = "disableContext"
  /\ last.args = <<"player">>
  /\ "player" \notin activeContexts
  /\ StateOf(actionStates, "jump") = PRESSED

\* C30: in every state each action's state is absent, PRESSED or RELEASED,
\* no handler has been invoked with HELD, and isActionInState(action, HELD)
\* is false for every action.
C30_HeldNeverProduced ==
  /\ \A a \in DOMAIN actionStates : actionStates[a] \in {PRESSED, RELEASED}
  /\ \A i \in 1..Len(notified) : notified[i].state \in {PRESSED, RELEASED}
  /\ \A a \in InputActionType : ~IsActionInState(Engine, a, HELD)
  /\ (last.op = "isActionInState" /\ last.args[2] = HELD) => last.ret = "false"

\* The space key is down, jump is PRESSED, and isActionInState(jump, HELD)
\* has returned false.
C30_Witness ==
  /\ last.op = "isActionInState"
  /\ last.args = <<"jump", HELD>>
  /\ last.ret = "false"
  /\ KeyIsTrue(Engine, " ")
  /\ StateOf(actionStates, "jump") = PRESSED

\* C27: with the default binding of jump and the player context enabled, a
\* key-down of ' ' that finds the key released makes
\* isActionInState(jump, PRESSED) true and invokes every handler registered
\* for jump with (PRESSED, no value); a handler of an action that is neither
\* a movement action nor camera-look always receives no value.
C27_DigitalDispatch ==
  [][ /\ ( /\ last'.op = "keydown"
           /\ last'.args = <<" ">>
           /\ ~KeyIsTrue(Engine, " ")
           /\ GetBinding(Engine, "jump") = DefaultBindingsTable[5]
           /\ IsContextEnabled(Engine, "player") )
         => /\ IsActionInState([Engine EXCEPT !.actionStates = actionStates'],
                               "jump", PRESSED)
            /\ \A h \in HandlersOf(actionHandlers', "jump") :
                 \E i \in 1..Len(notified') :
                   notified'[i] = Notification("jump", h, PRESSED, NoValue)
      /\ \A i \in 1..Len(notified') :
           notified'[i].action \notin MovementActions \cup {"camera-look"}
           => notified'[i].value = NoValue ]_vars

-----------------------------------------------------------------------------
(* Dispatch after rebinding jump from ' ' to 'k'                            *)

RedirectKeys == {"k", " "}
RedirectActions == {"jump", "move-forward"}
RedirectPrimaries == {"k"}
RedirectRegistrations == {<<"jump", "hOk">>, <<"move-forward", "hThrow">>}

InitRedirect == InitWith({Null})

NextRedirect ==
  \/ \E k \in RedirectKeys : KeyDownEvent(k)
  \/ \E k \in RedirectKeys : KeyUpEvent(k)
  \/ \E a \in RedirectActions, p \in RedirectPrimaries : RebindActionCall(a, p, Undefined)
  \/ \E r \in RedirectRegistrations : RegisterActionHandlerCall(r[1], r[2])
  \/ \E r \in RedirectRegistrations : UnsubscribeCall(r[1], r[2])

SpecRedirect == InitRedirect /\ [][NextRedirect]_vars

\* C28: once jump is rebound to 'k' (and the player context is enabled), a
\* key-down of 'k' that finds the key released sets jump to PRESSED; a
\* key-down or key-up of the old control ' ' leaves jump's state unchanged
\* and invokes no handler of jump, and still sets the state of
\* release-grapple, which is bound to ' '.
C28_RebindRedirects ==
  [][ ( /\ MapGet(bindings, "jump").primary = "k"
        /\ MapGet(bindings, "jump").secondary = Undefined
        /\ IsContextEnabled(Engine, "player") )
      => /\ ( /\ last'.op = "keydown"
              /\ last'.args = <<"k">>
              /\ ~KeyIsTrue(Engine, "k") )
            => StateOf(actionStates', "jump") = PRESSED
         /\ ( /\ last'.op \in {"keydown", "keyup"}
              /\ last'.args = <<" ">>
              /\ (last'.op = "keydown" => ~KeyIsTrue(Engine, " ")) )
            => /\ StateOf(actionStates', "jump") = StateOf(actionStates, "jump")
               /\ ~AnyNotified(notified', "jump")
               /\ StateOf(actionStates', "release-grapple") =
                    (IF last'.op = "keydown" THEN PRESSED ELSE RELEASED) ]_vars

-----------------------------------------------------------------------------
(* Edges of the raw controls                                                *)

\* C31: a key-down event for a key whose raw state is already pressed
\* changes no action state, invokes no handler and changes no axis value.
C31_RepeatIgnored ==
  [][ (last'.op = "keydown" /\ KeyIsTrue(Engine, EventToken(last')))
      => /\ actionStates' = actionStates
         /\ notified' = << >>
         /\ axisValues' = axisValues
         /\ keyStates' = keyStates
         /\ ~last'.raised ]_vars

\* 'w' was pressed while the player context was disabled, the context was
\* enabled again, and a further key-down of 'w' has been ignored:
\* move-forward has no state.
C31_Witness ==
  /\ last.op = "keydown"
  /\ EventToken(last) = "w"
  /\ regate.stage = 2
  /\ KeyIsTrue(Engine, "w")
  /\ IsContextEnabled(Engine, "player")
  /\ StateOf(actionStates, "move-forward") = Undefined
  /\ notified = << >>

\* C32: a down event for a control that is already pressed, and an up event
\* for a control that is not pressed, change no action state and notify no
\* handler, for keys and mouse buttons alike.
C32_EdgesOnly ==
  [][ ( \/ (last'.op \in {"keydown", "mousedown"} /\ KeyIsTrue(Engine, EventToken(last')))
        \/ (last'.op \in {"keyup", "mouseup"} /\ ~KeyIsTrue(Engine, EventToken(last'))) )
      => /\ actionStates' = actionStates
         /\ notified' = << >> ]_vars

\* C33: an action whose state is PRESSED has a control of its current
\* binding pressed in the raw tracker.
C33_NoStuckPress ==
  \A a \in DOMAIN actionStates :
    actionStates[a] = PRESSED => Held(a)

\* C35: while the player context is disabled, key-down and key-up events
\* leave getAxisValue and getVector2Value of the movement actions unchanged.
C35_AxisGated ==
  [][ (last'.op \in {"keydown", "keyup"} /\ ~IsContextEnabled(Engine, "player"))
      => LET after == [Engine EXCEPT !.axisValues = axisValues']
         IN /\ \A a \in MovementActions : GetAxisValue(after, a) = GetAxisValue(Engine, a)
            /\ GetVector2Value(after, "move-right", "move-forward")
                 = GetVector2Value(Engine, "move-right", "move-forward") ]_vars

\* C36: in every state the primary and the secondary control of each
\* binding are lower-case strings.
C36_TokensNormalized ==
  \A i \in 1..Len(bindings) :
    /\ ToLowerCase(bindings[i].v.primary) = bindings[i].v.primary
    /\ bindings[i].v.secondary # Undefined
       => ToLowerCase(bindings[i].v.secondary) = bindings[i].v.secondary

-----------------------------------------------------------------------------
(* Two controls of one action: move-forward on 'w' and 'arrowup'            *)

OrKeys == {"w", "arrowup"}
OrHandlerActions == {"move-forward"}

InitOr == InitWith({Null})

NextOr ==
  \/ \E k \in OrKeys : KeyDownEvent(k)
  \/ \E k \in OrKeys : KeyUpEvent(k)
  \/ \E a \in OrHandlerActions, h \in Handlers : RegisterActionHandlerCall(a, h)
  \/ \E a \in OrHandlerActions, h \in Handlers : UnsubscribeCall(a, h)

SpecOr == InitOr /\ [][NextOr]_vars

\* C34: with the context enabled and the binding unchanged, releasing one of
\* the two pressed controls of move-forward leaves it PRESSED and sends no
\* RELEASED notification; move-forward becomes RELEASED only when none of
\* its bound controls is pressed.
C34_LogicalOr ==
  [][ /\ ( /\ last'.op = "keyup"
           /\ IsContextEnabled(Engine, "player")
           /\ \A c \in ControlsOf(Engine, "move-forward") : KeyIsTrue(Engine, c)
           /\ StateOf(actionStates, "move-forward") = PRESSED )
         => /\ StateOf(actionStates', "move-forward") = PRESSED
            /\ \A h \in Handlers : ~WasNotified(notified', "move-forward", h, RELEASED)
      /\ ( /\ StateOf(actionStates', "move-forward") = RELEASED
           /\ StateOf(actionStates, "move-forward") # RELEASED )
         => \A c \in ControlsOf(Engine, "move-forward") :
              ~KeyIsTrue([Engine EXCEPT !.keyStates = keyStates'], c) ]_vars

-----------------------------------------------------------------------------
(* Handlers that call back into the service during a dispatch pass          *)

ReenterKeys == {" "}
ReenterContexts == {"player"}
ReenterRegistrations ==
  {<<"jump", "hDisable">>, <<"jump", "hRegister">>, <<"jump", "hOk2">>,
   <<"release-grapple", "hOk">>}

InitReenter == InitWith({Null})

NextReenter ==
  \/ \E k \in ReenterKeys : KeyDownEvent(k)
  \/ \E k \in ReenterKeys : KeyUpEvent(k)
  \/ \E c \in ReenterContexts : EnableContextCall(c)
  \/ \E r \in ReenterRegistrations : RegisterActionHandlerCall(r[1], r[2])
  \/ \E r \in ReenterRegistrations : UnsubscribeCall(r[1], r[2])

SpecReenter == InitReenter /\ [][NextReenter]_vars

\* The raw transition recorded as l reached processInputChange: it was not
\* a key-down of a key already pressed.
Processed(l) ==
  \/ l.op \in {"keyup", "mousedown", "mouseup"}
  \/ l.op = "keydown" /\ ~KeyIsTrue(Engine, EventToken(l))

\* The actions whose binding in table m has control tok and a context in cs.
Matched(m, cs, tok) ==
  {a \in MapKeys(m) : BoundTo(m, a, tok) /\ MapGet(m, a).context \in cs}

\* C37: the actions updated and notified for one raw transition are those
\* matched by the bindings and the active contexts when the transition
\* arrives, whatever the handlers called during the pass do.
C37_PassFixedAtArrival ==
  [][ (last'.op \in RawEventOps /\ Processed(last'))
      => \A a \in MapKeys(bindings) :
           IF a \in Matched(bindings, activeContexts, EventToken(last'))
             THEN /\ StateOf(actionStates', a)
                       = (IF last'.op \in {"keydown", "mousedown"} THEN PRESSED ELSE RELEASED)
                  /\ HandlersOf(actionHandlers, a) \subseteq Invoked(notified', a)
             ELSE /\ StateOf(actionStates', a) = StateOf(actionStates, a)
                  /\ ~AnyNotified(notified', a) ]_vars

\* C38: a dispatch pass invokes, for each action, only handlers registered
\* when the pass began, and no more handlers than were registered then.
C38_HandlerSnapshot ==
  [][ (last'.op \in RawEventOps /\ Processed(last'))
      => \A a \in MapKeys(bindings) :
           /\ Invoked(notified', a) \subseteq HandlersOf(actionHandlers, a)
           /\ Cardinality({i \in 1..Len(notified') : notified'[i].action = a})
                <= Cardinality(HandlersOf(actionHandlers, a)) ]_vars

-----------------------------------------------------------------------------
(* ObjectPool<T>.  An object is known by its identity: createFn returns a   *)
(* new instance on each call, the n-th call the object n.                   *)

\* The prefab: an object of type T that is never in the pool.
Prefab == 0

\* How many objects createFn may make in a behaviour.
MaxObjects == 3

\* The largest initialSize given to the constructor.
MaxInitialSize == 2

\* The objects a caller can hold: every object made so far, and the prefab.
Objects == 0..MaxObjects

\* The elements of a sequence.
Elements(seq) == {seq[i] : i \in 1..Len(seq)}

\* createFn(prefab)
CreateFn(p) == p.created + 1

\* populate(count)
RECURSIVE Populate(_, _)
Populate(p, count) ==
  IF count <= 0 THEN p
  ELSE Populate([p EXCEPT !.pool = Append(@, CreateFn(p)), !.created = @ + 1],
                count - 1)

\* new ObjectPool(prefab, initialSize, name, createFn, resetFn)
NewObjectPool(initialSize) ==
  Populate([pool |-> << >>, active |-> {}, created |-> 0], initialSize)

\* get(): the pool after the call and the object returned (ret holds it;
\* ret is empty for a method that returns nothing).
ObjectPoolGet(p) ==
  LET p1 == IF Len(p.pool) = 0 THEN Populate(p, 1) ELSE p
      obj == p1.pool[Len(p1.pool)]
  IN [p |-> [p1 EXCEPT !.pool = SubSeq(@, 1, Len(@) - 1),
                       !.active = @ \cup {obj}],
      ret |-> {obj}, resets |-> << >>]

ObjectPoolReleaseAny(p, obj) ==
  [p |-> [p EXCEPT !.active = @ \ {obj}, !.pool = Append(@, obj)],
   ret |-> {}, resets |-> <<obj>>]

\* release(obj): the pool after the call and the calls of resetFn made.
ObjectPoolRelease(p, obj) ==
  IF obj \in p.active
    THEN [p |-> [p EXCEPT !.active = @ \ {obj}, !.pool = Append(@, obj)],
          ret |-> {}, resets |-> <<obj>>]
    ELSE [p |-> p, ret |-> {}, resets |-> << >>]

\* clear()
ObjectPoolClear(p) ==
  [p |-> [p EXCEPT !.pool = << >>, !.active = {}],
   ret |-> {}, resets |-> << >>]

\* getPoolSize()
GetPoolSize(p) == Len(p.pool)

\* getActiveCount()
GetActiveCount(p) == Cardinality(p.active)

PoolCall(op, arg, r) ==
  /\ objectPool' = r.p
  /\ poolLast' = [op |-> op, arg |-> arg, ret |-> r.ret, resets |-> r.resets,
                  creates |-> r.p.created - objectPool.created]
  /\ UNCHANGED << inputVars, inventoryVars >>

GetCall ==
  /\ Len(objectPool.pool) > 0 \/ objectPool.created < MaxObjects
  /\ PoolCall("get", Prefab, ObjectPoolGet(objectPool))

\* The caller holds obj: the prefab, or an object createFn has made.
ReleaseCall(obj) ==
  /\ obj <= objectPool.created
  /\ PoolCall("release", obj, ObjectPoolRelease(objectPool, obj))

ClearCall == PoolCall("clear", Prefab, ObjectPoolClear(objectPool))

InitPool ==
  /\ InitInput({Null})
  /\ NoInventory
  /\ \E n \in 0..MaxInitialSize :
       /\ objectPool = NewObjectPool(n)
       /\ poolLast = [op |-> "constructor", arg |-> n, ret |-> {},
                      resets |-> << >>, creates |-> n]

NextPool ==
  \/ GetCall
  \/ \E obj \in Objects : ReleaseCall(obj)
  \/ ClearCall

SpecPool == InitPool /\ [][NextPool]_vars

\* No object is both idle and active, and no object is idle twice.
PoolOwnership(p) ==
  /\ Elements(p.pool) \cap p.active = {}
  /\ Cardinality(Elements(p.pool)) = Len(p.pool)

\* C39: no object is both in the idle pool and in the active set or twice in
\* the idle pool; release of an object that is not active changes nothing
\* and does not call resetFn; get() on an empty pool creates exactly one
\* object; poolSize + activeCount decreases only by clear().
C39_PoolOwnership ==
  /\ []PoolOwnership(objectPool)
  /\ [][ /\ (poolLast'.op = "release" /\ poolLast'.arg \notin objectPool.active)
            => objectPool' = objectPool /\ poolLast'.resets = << >>
         /\ (poolLast'.op = "get" /\ GetPoolSize(objectPool) = 0)
            => poolLast'.creates = 1
         /\ poolLast'.op = "get"
            => Cardinality(poolLast'.ret) = 1 /\ poolLast'.ret \subseteq objectPool'.active
         /\ poolLast'.op # "clear"
            => GetPoolSize(objectPool') + GetActiveCount(objectPool')
                 >= GetPoolSize(objectPool) + GetActiveCount(objectPool) ]_vars

\* An object was obtained, released, and released a second time while
\* another object is active: the second release changed nothing.
C39_Witness ==
  /\ poolLast.op = "release"
  /\ poolLast.arg \in Elements(objectPool.pool)
  /\ poolLast.resets = << >>
  /\ objectPool.active # {}
  /\ GetPoolSize(objectPool) + GetActiveCount(objectPool) = objectPool.created

-----------------------------------------------------------------------------
(* InventoryService: the item stacks and the maximum number of stacks.      *)
(* The event listeners run inside a try/catch and are left out; the events  *)
(* dispatched by a call are recorded with the call.                         *)

\* private maxSize = 50
DefaultMaxSize == 50

\* The largest count a stack is grown to by addItem in a behaviour.
MaxCount == 5

INVENTORY_FULL == "inventory-full"
ITEM_ADDED == "item-added"
ITEM_REMOVED == "item-removed"
INVENTORY_CLEARED == "inventory-cleared"

\* The index of the first stack of itemId in items, or -1.
FindIndex(items, itemId) ==
  IF \E i \in 1..Len(items) : items[i].id = itemId
    THEN CHOOSE i \in 1..Len(items) :
           /\ items[i].id = itemId
           /\ \A j \in 1..(i - 1) : items[j].id # itemId
    ELSE -1

\* getItemCount(itemId)
GetItemCount(v, itemId) ==
  IF FindIndex(v.items, itemId) = -1 THEN 0
  ELSE v.items[FindIndex(v.items, itemId)].count

\* hasItem(itemId, count)
HasItem(v, itemId, count) ==
  IF count <= 0 THEN TRUE ELSE GetItemCount(v, itemId) >= count

\* getInventorySize()
GetInventorySize(v) == Len(v.items)

\* getMaxInventorySize()
GetMaxInventorySize(v) == v.maxSize

\* addItem(itemId, count): the inventory after the call, the value returned
\* (as text) and the events dispatched.
AddItem(v, itemId, count) ==
  LET i == FindIndex(v.items, itemId)
  IN IF count <= 0 THEN [v |-> v, ret |-> "false", events |-> << >>]
     ELSE IF Len(v.items) >= v.maxSize /\ i = -1
       THEN [v |-> v, ret |-> "false", events |-> <<INVENTORY_FULL>>]
     ELSE [v |-> [v EXCEPT !.items =
                    IF i # -1 THEN [@ EXCEPT ![i].count = @ + count]
                    ELSE Append(@, [id |-> itemId, count |-> count])],
           ret |-> "true", events |-> <<ITEM_ADDED>>]

\* items.splice(i, 1)
Splice(items, i) == SubSeq(items, 1, i - 1) \o SubSeq(items, i + 1, Len(items))

\* removeItem(itemId, count)
RemoveItem(v, itemId, count) ==
  LET i == FindIndex(v.items, itemId)
  IN IF count <= 0 \/ ~HasItem(v, itemId, count) \/ i = -1
       THEN [v |-> v, ret |-> "false", events |-> << >>]
     ELSE [v |-> [v EXCEPT !.items =
                    IF @[i].count - count <= 0 THEN Splice(@, i)
                    ELSE [@ EXCEPT ![i].count = @ - count]],
           ret |-> "true", events |-> <<ITEM_REMOVED>>]

\* clearInventory()
ClearInventory(v) ==
  [v |-> [v EXCEPT !.items = << >>], ret |-> "void",
   events |-> <<INVENTORY_CLEARED>>]

\* setMaxInventorySize(size)
SetMaxInventorySize(v, size) ==
  [v |-> [v EXCEPT !.maxSize = size], ret |-> "void", events |-> << >>]

\* initializeDemoItems(): the three addItem calls.
InitializeDemoItems(v) ==
  AddItem(AddItem(AddItem(v, "weapon_sword", 1).v, "potion_health", 5).v,
          "armor_chest", 1).v

\* new InventoryService()
NewInventoryService ==
  InitializeDemoItems([items |-> << >>, maxSize |-> DefaultMaxSize])

InventoryItemIds == {"weapon_sword", "arrow"}
InventoryAddCounts == {0, 1}
InventoryRemoveCounts == {0, 2}
InventorySizes == {0, 3, DefaultMaxSize}

InventoryCall(op, args, r) ==
  /\ inventory' = r.v
  /\ inventoryLast' = [op |-> op, args |-> args, ret |-> r.ret, events |-> r.events]
  /\ UNCHANGED << inputVars, poolVars >>

AddItemCall(itemId, count) ==
  /\ GetItemCount(inventory, itemId) + count <= MaxCount
  /\ InventoryCall("addItem", <<itemId, count>>, AddItem(inventory, itemId, count))

RemoveItemCall(itemId, count) ==
  InventoryCall("removeItem", <<itemId, count>>, RemoveItem(inventory, itemId, count))

ClearInventoryCall ==
  InventoryCall("clearInventory", << >>, ClearInventory(inventory))

SetMaxInventorySizeCall(size) ==
  InventoryCall("setMaxInventorySize", <<size>>, SetMaxInventorySize(inventory, size))

InitInventory ==
  /\ InitInput({Null})
  /\ NoObjectPool
  /\ inventory = NewInventoryService
  /\ inventoryLast = [op |-> "constructor", args |-> << >>, ret |-> "void",
                      events |-> << >>]

NextInventory ==
  \/ \E id \in InventoryItemIds, n \in InventoryAddCounts : AddItemCall(id, n)
  \/ \E id \in InventoryItemIds, n \in InventoryRemoveCounts : RemoveItemCall(id, n)
  \/ ClearInventoryCall
  \/ \E size \in InventorySizes : SetMaxInventorySizeCall(size)

SpecInventory == InitInventory /\ [][NextInventory]_vars

\* C40: getInventorySize() <= getMaxInventorySize() in every state; addItem
\* of an item id with no stack into a full inventory returns false,
\* dispatches INVENTORY_FULL and leaves the items unchanged, while addItem to
\* an existing stack succeeds when the inventory is full.
C40_Capacity ==
  /\ [](GetInventorySize(inventory) <= GetMaxInventorySize(inventory))
  /\ [][ ( /\ inventoryLast'.op = "addItem"
           /\ inventoryLast'.args[2] > 0
           /\ GetInventorySize(inventory) >= GetMaxInventorySize(inventory) )
         => IF GetItemCount(inventory, inventoryLast'.args[1]) = 0
              THEN /\ inventoryLast'.ret = "false"
                   /\ inventoryLast'.events = <<INVENTORY_FULL>>
                   /\ inventory'.items = inventory.items
              ELSE /\ inventoryLast'.ret = "true"
                   /\ GetItemCount(inventory', inventoryLast'.args[1])
                        = GetItemCount(inventory, inventoryLast'.args[1])
                            + inventoryLast'.args[2] ]_vars

=============================================================================
